---- MODULE Spec2Model ----
(***************************************************************************)
(* Streamed-conversation playback engine of the Interview component:       *)
(* the EventSource ingestor (onmessage / onerror), the processQueue pump,  *)
(* its two pacing mechanisms (setTimeout and Audio playback), the audio    *)
(* and speed toggles, and the session effect's setup and cleanup.          *)
(*                                                                         *)
(* Every handler runs to completion on the single-threaded event loop, so  *)
(* each handler is one atomic action.  A handler is written as a function  *)
(* from the component's state (a record) to its state after the handler.   *)
(***************************************************************************)
EXTENDS Integers, Sequences, FiniteSets, TLC

\* ---------------------------------------------------------------- bounds
\* well-formed non-end frames delivered over the whole run
MaxFrames == 3
\* sessions (runs of the session effect) over the whole run
MaxSessions == 2
\* tokens in a report given to getDiffReport
MaxTokens == 3

\* ------------------------------------------------------------- constants
Null == 0
FastWait == 1000
SlowWait == 3000

\* Strings the program inspects or builds (report texts, HTML, evaluation
\* texts) are sequences of symbols: "<", ">", a white-space character, or
\* a run of other characters.  The empty string is << >>.

\* ConversationEvents the backend may push: a spoken turn and a turn
\* without audio.  audio = "" stands for a missing or empty (falsy) audio
\* reference.
Events ==
  { [speaker |-> "interviewer", text |-> <<"Hello">>, audio |-> "a.wav"],
    [speaker |-> "patient",     text |-> <<"Hi">>,    audio |-> ""] }

\* The events of the report tracker's specification: two report revisions
\* that render differently, one that renders like the first, and a turn.
ReportEvents ==
  { [speaker |-> "report",  text |-> <<"#", " ", "R1">>,      audio |-> ""],
    [speaker |-> "report",  text |-> <<"#", " ", "R1", " ">>, audio |-> ""],
    [speaker |-> "report",  text |-> <<"#", " ", "R2">>,      audio |-> ""],
    [speaker |-> "patient", text |-> <<"Hi">>,                audio |-> ""] }

\* The three callbacks processQueue attaches to every clip it starts.
\* A clip is modelled by the set of its callbacks the browser may still
\* deliver; it is audibly playing exactly while "ended" is among them.
Callbacks == {"ended", "error", "reject"}

VARIABLES
  messages,             \* useState: DisplayedMessages
  isInterviewComplete,  \* useState
  isAudioEnabled,       \* useState, mirrored by isAudioEnabledRef
  waitTime,             \* useState, mirrored by waitTimeRef
  messageQueue,         \* useRef: PlaybackQueue
  timeoutIdRef,         \* useRef: Null or the id returned by setTimeout
  currentPlayingAudio,  \* useRef: Null or the clip last started
  readyState,           \* eventSourceRef.current.readyState
  timers,               \* browser: timers armed and neither fired nor cleared
  timerSeq,             \* browser: number of setTimeout calls so far
  clips,                \* browser: clip id -> callbacks still deliverable
  currentReport,        \* useState
  prevReport,           \* useState
  reportPane,           \* DOM: the __html of the report pane
  showEvaluationInfoPopup, \* useState
  showEvaluation,       \* useState
  evaluation,           \* useState
  isFetchingEvaluation, \* useState
  fetches,              \* browser: evaluation requests in flight
  requests,             \* browser: number of fetch calls so far
  oldChannels,          \* browser: readyState of the earlier sessions' EventSources
  closedBy,             \* history: what closed this session's channel
  reportLog,            \* history: texts of the reports released since mount
  session,              \* history: number of the current session
  received,             \* history: parsed non-end frames of this session
  arrived,              \* history: parsed non-end frames of the whole run
  sawMalformed,         \* history: a malformed frame was discarded in this session
  last                  \* history: the handler that ran last

vars == << messages, isInterviewComplete, isAudioEnabled, waitTime,
           messageQueue, timeoutIdRef, currentPlayingAudio, readyState,
           timers, timerSeq, clips, currentReport, prevReport, reportPane,
           showEvaluationInfoPopup, showEvaluation, evaluation,
           isFetchingEvaluation, fetches, requests, oldChannels, closedBy,
           reportLog, session, received, arrived, sawMalformed, last >>

\* The component's state as one record, the argument of every handler.
St ==
  [ messages |-> messages,
    isInterviewComplete |-> isInterviewComplete,
    isAudioEnabled |-> isAudioEnabled,
    waitTime |-> waitTime,
    messageQueue |-> messageQueue,
    timeoutIdRef |-> timeoutIdRef,
    currentPlayingAudio |-> currentPlayingAudio,
    readyState |-> readyState,
    timers |-> timers,
    timerSeq |-> timerSeq,
    clips |-> clips,
    currentReport |-> currentReport,
    prevReport |-> prevReport,
    showEvaluationInfoPopup |-> showEvaluationInfoPopup,
    showEvaluation |-> showEvaluation,
    evaluation |-> evaluation,
    isFetchingEvaluation |-> isFetchingEvaluation,
    fetches |-> fetches,
    requests |-> requests ]

\* ------------------------------------------------------ string primitives
WhiteSpace == {" ", "\n"}

\* Array.prototype.join(""): the concatenation of a sequence of strings
RECURSIVE join(_)
join(parts) ==
  IF parts = << >> THEN << >> ELSE Head(parts) \o join(Tail(parts))

\* String.prototype.trim
RECURSIVE trimStart(_)
trimStart(text) ==
  IF text # << >> /\ Head(text) \in WhiteSpace THEN trimStart(Tail(text)) ELSE text

RECURSIVE trimEnd(_)
trimEnd(text) ==
  IF text # << >> /\ text[Len(text)] \in WhiteSpace
  THEN trimEnd(SubSeq(text, 1, Len(text) - 1))
  ELSE text

trim(text) == trimEnd(trimStart(text))

\* String.prototype.replace(pattern, ''): removes the first occurrence
RECURSIVE removeFirst(_, _)
removeFirst(text, pattern) ==
  IF Len(text) < Len(pattern) THEN text
  ELSE IF SubSeq(text, 1, Len(pattern)) = pattern
       THEN SubSeq(text, Len(pattern) + 1, Len(text))
       ELSE << Head(text) >> \o removeFirst(Tail(text), pattern)

\* marked(text) on the markdown the reports use: an ATX heading of level
\* one, or a paragraph
marked(text) ==
  IF Len(text) >= 3 /\ text[1] = "#" /\ text[2] = " "
  THEN <<"<", "h1", ">">> \o trimStart(SubSeq(text, 3, Len(text)))
         \o <<"<", "/h1", ">", "\n">>
  ELSE IF text = << >> THEN << >>
  ELSE <<"<", "p", ">">> \o text \o <<"<", "/p", ">", "\n">>

\* ------------------------------------------------------------ getDiffReport
\* index of the first ">" of html at or after position i, 0 if there is none
RECURSIVE firstGt(_, _)
firstGt(html, i) ==
  IF i > Len(html) THEN 0
  ELSE IF html[i] = ">" THEN i
  ELSE firstGt(html, i + 1)

\* end of the maximal run of symbols other than "<" that starts at i
RECURSIVE textEnd(_, _)
textEnd(html, i) ==
  IF i + 1 <= Len(html) /\ html[i + 1] # "<" THEN textEnd(html, i + 1) ELSE i

\* html.match(/(<[^>]+>|[^<]+)/g) || [], scanning from position i: a "<"
\* that opens no tag matches neither alternative and is skipped
RECURSIVE tokenizeFrom(_, _)
tokenizeFrom(html, i) ==
  IF i > Len(html) THEN << >>
  ELSE IF html[i] = "<"
       THEN LET j == IF i + 1 <= Len(html) /\ html[i + 1] # ">"
                     THEN firstGt(html, i + 2) ELSE 0
            IN  IF j # 0
                THEN << SubSeq(html, i, j) >> \o tokenizeFrom(html, j + 1)
                ELSE tokenizeFrom(html, i + 1)
       ELSE LET j == textEnd(html, i)
            IN  << SubSeq(html, i, j) >> \o tokenizeFrom(html, j + 1)

tokenizeHTML(html) == tokenizeFrom(html, 1)

\* /^<[^>]+>$/.test(text)
isTagText_Never(text) == FALSE

isTagText(text) ==
  /\ Len(text) >= 3
  /\ text[1] = "<"
  /\ text[Len(text)] = ">"
  /\ \A k \in 2..(Len(text) - 1) : text[k] # ">"

\* length of a longest common subsequence of a and b
RECURSIVE lcsLength(_, _)
lcsLength(a, b) ==
  IF a = << >> \/ b = << >> THEN 0
  ELSE IF Head(a) = Head(b) THEN 1 + lcsLength(Tail(a), Tail(b))
  ELSE LET x == lcsLength(Tail(a), b)
           y == lcsLength(a, Tail(b))
       IN  IF x >= y THEN x ELSE y

\* a shortest edit script from a to b, removals before insertions
RECURSIVE editScript(_, _)
editScript(a, b) ==
  IF a = << >> /\ b = << >> THEN << >>
  ELSE IF a = << >> THEN << [kind |-> "added", item |-> Head(b)] >>
                           \o editScript(a, Tail(b))
  ELSE IF b = << >> THEN << [kind |-> "removed", item |-> Head(a)] >>
                           \o editScript(Tail(a), b)
  ELSE IF Head(a) = Head(b)
       THEN << [kind |-> "common", item |-> Head(a)] >>
              \o editScript(Tail(a), Tail(b))
  ELSE IF lcsLength(Tail(a), b) >= lcsLength(a, Tail(b))
       THEN << [kind |-> "removed", item |-> Head(a)] >> \o editScript(Tail(a), b)
       ELSE << [kind |-> "added", item |-> Head(b)] >> \o editScript(a, Tail(b))

\* consecutive steps of one kind become one part
RECURSIVE groupRuns(_)
groupRuns(script) ==
  IF script = << >> THEN << >>
  ELSE LET rest == groupRuns(Tail(script))
           h == Head(script)
       IN  IF rest # << >> /\ rest[1].kind = h.kind
           THEN << [kind |-> h.kind, value |-> << h.item >> \o rest[1].value] >>
                  \o Tail(rest)
           ELSE << [kind |-> h.kind, value |-> << h.item >>] >> \o rest

\* diffArrays(a, b) of the diff library: the parts of a shortest edit
\* script, each part a run of tokens that is common, removed or added
diffArrays_WholeReplace(a, b) ==
  IF a = b
  THEN IF a = << >> THEN << >>
       ELSE << [value |-> a, added |-> FALSE, removed |-> FALSE] >>
  ELSE << [value |-> a, added |-> FALSE, removed |-> TRUE],
          [value |-> b, added |-> TRUE, removed |-> FALSE] >>

diffArrays(a, b) ==
  LET runs == groupRuns(editScript(a, b))
  IN  [k \in 1..Len(runs) |->
         [value |-> runs[k].value,
          added |-> runs[k].kind = "added",
          removed |-> runs[k].kind = "removed"]]

\* diffWords(a, b) of the diff library: the same over the words and
\* white-space runs of two texts, each part's value one string
diffWords(a, b) ==
  LET parts == diffArrays([k \in 1..Len(a) |-> << a[k] >>],
                          [k \in 1..Len(b) |-> << b[k] >>])
  IN  [k \in 1..Len(parts) |->
         [value |-> join(parts[k].value),
          added |-> parts[k].added,
          removed |-> parts[k].removed]]

AddOpen == <<"<", "span class=\"add\"", ">">>
RemoveOpen == <<"<", "span class=\"remove\"", ">">>
SpanClose == <<"<", "/span", ">">>

\* innerDiff.map(...).join("")
RECURSIVE innerResult(_)
innerResult(innerDiff) ==
  IF innerDiff = << >> THEN << >>
  ELSE LET part == Head(innerDiff)
       IN  ( IF part.added THEN AddOpen \o part.value \o SpanClose
             ELSE IF part.removed THEN RemoveOpen \o part.value \o SpanClose
             ELSE part.value )
           \o innerResult(Tail(innerDiff))

\* the for loop of getDiffReport from index i on
RECURSIVE diffLoop(_, _)
diffLoop(diffParts, i) ==
  IF i > Len(diffParts) THEN << >>
  ELSE
    LET pairs == /\ diffParts[i].removed
                 /\ i + 1 <= Len(diffParts)
                 /\ diffParts[i + 1].added
        removedText == join(diffParts[i].value)
        addedText == join(diffParts[i + 1].value)
    IN  IF pairs /\ ~isTagText(removedText) /\ ~isTagText(addedText)
        THEN innerResult(diffWords(removedText, addedText))
               \o diffLoop(diffParts, i + 2)
        ELSE ( IF diffParts[i].added
               THEN AddOpen \o join(diffParts[i].value) \o SpanClose
               ELSE IF diffParts[i].removed
               THEN RemoveOpen \o join(diffParts[i].value) \o SpanClose
               ELSE join(diffParts[i].value) )
             \o diffLoop(diffParts, i + 1)

getDiffReport_FromEmpty(prev, current) ==
  diffLoop(diffArrays(<< >>, tokenizeHTML(current)), 1)

getDiffReport(prev, current) ==
  diffLoop(diffArrays(tokenizeHTML(prev), tokenizeHTML(current)), 1)

\* prevReport ? getDiffReport() : currentReport
reportPaneHtml(prev, current) ==
  IF prev # << >> THEN getDiffReport(prev, current) ELSE current

\* ------------------------------------------------------------- the effects
\* messages.filter((msg) => msg.speaker === "report")
reportMessages(msgs) == SelectSeq(msgs, LAMBDA msg : msg.speaker = "report")

\* the effect "Update report on new messages"
reportEffect_KeepsPrevious(s) ==
  LET reports == reportMessages(s.messages)
  IN  IF reports = << >> THEN s
      ELSE LET newReport == marked(trim(reports[Len(reports)].text))
           IN  IF newReport # s.currentReport
               THEN [s EXCEPT !.currentReport = newReport]
               ELSE s

reportEffect_AlwaysShifts(s) ==
  LET reports == reportMessages(s.messages)
  IN  IF reports = << >> THEN s
      ELSE LET newReport == marked(trim(reports[Len(reports)].text))
           IN  [s EXCEPT !.prevReport = s.currentReport,
                         !.currentReport = newReport]

reportEffect_ComparesRaw(s) ==
  LET reports == reportMessages(s.messages)
  IN  IF reports = << >> THEN s
      ELSE LET newReport == marked(trim(reports[Len(reports)].text))
           IN  IF reports[Len(reports)].text # s.currentReport
               THEN [s EXCEPT !.prevReport = s.currentReport,
                              !.currentReport = newReport]
               ELSE s

reportEffect(s) ==
  LET reports == reportMessages(s.messages)
  IN  IF reports = << >> THEN s
      ELSE LET newReport == marked(trim(reports[Len(reports)].text))
           IN  IF newReport # s.currentReport
               THEN [s EXCEPT !.prevReport = s.currentReport,
                              !.currentReport = newReport]
               ELSE s

\* the effect "Fetch evaluation when showEvaluation is triggered", up to
\* the fetch call
evaluationEffect(s) ==
  [s EXCEPT !.isFetchingEvaluation = TRUE,
            !.evaluation = << >>,
            !.fetches = s.fetches + 1,
            !.requests = s.requests + 1]

ErrorText == <<"Error", " ", "fetching", " ", "evaluation.">>

\* The markdown code fence: the symbol "FENCE" stands for three grave
\* accents, so FenceOpen is the opening fence line of an html block and
\* FenceClose the closing one.
FenceOpen == <<"FENCE", "html", "\n">>
FenceClose == <<"\n", "FENCE">>

\* .then(data => ...): the fence markers are stripped
evaluationThen(s, text) ==
  [s EXCEPT !.evaluation = removeFirst(removeFirst(text, FenceOpen), FenceClose),
            !.isFetchingEvaluation = FALSE,
            !.fetches = s.fetches - 1]

\* .catch(error => ...)
evaluationCatch_Retries(s) ==
  evaluationEffect([s EXCEPT !.fetches = s.fetches - 1])

evaluationCatch(s) ==
  [s EXCEPT !.evaluation = ErrorText,
            !.isFetchingEvaluation = FALSE,
            !.fetches = s.fetches - 1]

\* The render that follows a handler and the effects of that render, in
\* the order the component declares them.  The report effect depends on
\* messages and currentReport and changes nothing when run again, so it
\* is applied after every handler; the evaluation effect runs when
\* showEvaluation or messages changed, or when the handler replaced the
\* messages array or came with a new selectedCondition (newDeps).
afterRender(t, newDeps) ==
  LET u == reportEffect(t)
  IN  IF u.showEvaluation /\ ( ~showEvaluation \/ u.messages # messages
                               \/ newDeps )
      THEN evaluationEffect(u)
      ELSE u

CommitProps(t, newDeps) ==
  \E u \in {afterRender(t, newDeps)} :
    /\ currentReport' = u.currentReport
    /\ prevReport' = u.prevReport
    /\ reportPane' = reportPaneHtml(u.prevReport, u.currentReport)
    /\ showEvaluationInfoPopup' = u.showEvaluationInfoPopup
    /\ showEvaluation' = u.showEvaluation
    /\ evaluation' = u.evaluation
    /\ isFetchingEvaluation' = u.isFetchingEvaluation
    /\ fetches' = u.fetches
    /\ requests' = u.requests
    /\ messages' = u.messages
    /\ isInterviewComplete' = u.isInterviewComplete
    /\ isAudioEnabled' = u.isAudioEnabled
    /\ waitTime' = u.waitTime
    /\ messageQueue' = u.messageQueue
    /\ timeoutIdRef' = u.timeoutIdRef
    /\ currentPlayingAudio' = u.currentPlayingAudio
    /\ readyState' = u.readyState
    /\ timers' = u.timers
    /\ timerSeq' = u.timerSeq
    /\ clips' = u.clips
    /\ reportLog' =
         IF Len(u.messages) > Len(messages)
              /\ u.messages[Len(u.messages)].speaker = "report"
         THEN Append(reportLog, u.messages[Len(u.messages)].text)
         ELSE reportLog

Commit(t) == CommitProps(t, FALSE)

\* ------------------------------------------------------ browser primitives
\* clearTimeout(id): a no-op on an id whose timer already fired.
clearTimeout_NoOp(s, id) == s

clearTimeout(s, id) ==
  [s EXCEPT !.timers = {t \in s.timers : t.id # id}]

\* setTimeout(processQueue, delay): returns a fresh id.
setTimeout(s, delay) ==
  [s EXCEPT !.timerSeq = s.timerSeq + 1,
            !.timers = s.timers \cup {[id |-> s.timerSeq + 1, delay |-> delay]},
            !.timeoutIdRef = s.timerSeq + 1]

\* audio.pause(); audio.src = '': playback stops, so "ended" is no longer
\* deliverable; the error event of the emptied source and the rejection of
\* a still pending play() promise are.
stopAndRelease(s, c) ==
  [s EXCEPT !.clips[c] = @ \ {"ended"}]

\* audio.pause() alone: only the rejection of a pending play() remains.
pauseOnly(s, c) ==
  [s EXCEPT !.clips[c] = @ \cap {"reject"}]

\* new Audio(url); audio.play() with onended, onerror and catch attached.
startAudio(s) ==
  [s EXCEPT !.clips = Append(s.clips, Callbacks),
            !.currentPlayingAudio = Len(s.clips) + 1]

Playing(cl) == {c \in DOMAIN cl : "ended" \in cl[c]}

\* ---------------------------------------------------------------- the pump
\* eventSourceRef.current && eventSourceRef.current.readyState === CLOSED
channelClosed_Always(s) == TRUE

channelClosed_Negated(s) == s.readyState # "CLOSED"

channelClosed(s) == s.readyState = "CLOSED"

\* nextMessage.audio && isAudioEnabledRef.current
pacesByAudio_IgnoresToggle(nextMessage, s) == nextMessage.audio # ""

pacesByAudio(nextMessage, s) == nextMessage.audio # "" /\ s.isAudioEnabled

processQueue_PeeksHead(s) ==
  LET s1 == IF s.timeoutIdRef # Null THEN clearTimeout(s, s.timeoutIdRef) ELSE s
  IN  IF s1.messageQueue = << >>
      THEN [s1 EXCEPT !.timeoutIdRef = Null,
                      !.isInterviewComplete = channelClosed(s1)]
      ELSE
        LET nextMessage == Head(s1.messageQueue)
            s2 == [s1 EXCEPT !.messages = Append(s1.messages, nextMessage)]
        IN  IF pacesByAudio(nextMessage, s2)
            THEN LET s3 == IF s2.currentPlayingAudio # Null
                           THEN stopAndRelease(s2, s2.currentPlayingAudio)
                           ELSE s2
                 IN  startAudio(s3)
            ELSE setTimeout(s2, s2.waitTime)

processQueue(s) ==
  LET s1 == IF s.timeoutIdRef # Null THEN clearTimeout(s, s.timeoutIdRef) ELSE s
  IN  IF s1.messageQueue = << >>
      THEN [s1 EXCEPT !.timeoutIdRef = Null,
                      !.isInterviewComplete = channelClosed(s1)]
      ELSE
        LET nextMessage == Head(s1.messageQueue)
            s2 == [s1 EXCEPT !.messageQueue = Tail(s1.messageQueue),
                             !.messages = Append(s1.messages, nextMessage)]
        IN  IF pacesByAudio(nextMessage, s2)
            THEN LET s3 == IF s2.currentPlayingAudio # Null
                           THEN stopAndRelease(s2, s2.currentPlayingAudio)
                           ELSE s2
                 IN  startAudio(s3)
            ELSE setTimeout(s2, s2.waitTime)

\* ------------------------------------------------------------ the handlers
\* eventSource.onmessage, payload {event: "end"}
onEndSignal_StaysOpen(s) ==
  processQueue(s)

onEndSignal_OnlyCloses(s) ==
  [s EXCEPT !.readyState = "CLOSED"]

onEndSignal(s) ==
  processQueue([s EXCEPT !.readyState = "CLOSED"])

\* eventSource.onmessage, payload a ConversationEvent
onEvent_DropsWhenBusy(s, data) ==
  IF s.currentPlayingAudio = Null /\ s.timeoutIdRef = Null
  THEN processQueue([s EXCEPT !.messageQueue = Append(s.messageQueue, data)])
  ELSE s

onEvent_NeverPumps(s, data) ==
  [s EXCEPT !.messageQueue = Append(s.messageQueue, data)]

onEvent(s, data) ==
  LET s1 == [s EXCEPT !.messageQueue = Append(s.messageQueue, data)]
  IN  IF s1.currentPlayingAudio = Null /\ s1.timeoutIdRef = Null
      THEN processQueue(s1)
      ELSE s1

\* the parsed end-of-stream frame {"event": "end"}
EndSignal == [event |-> "end"]

\* data && data.event === 'end'
isEndSignal(data) == "event" \in DOMAIN data /\ data.event = "end"

\* eventSource.onmessage on a frame that parses
onmessage(s, data) ==
  IF isEndSignal(data) THEN onEndSignal(s) ELSE onEvent(s, data)

\* eventSource.onmessage, JSON.parse throws: the catch only logs
onMalformed_Closes(s) == [s EXCEPT !.readyState = "CLOSED"]

onMalformed(s) == s

\* eventSource.onerror
onTransportError(s) ==
  [s EXCEPT !.readyState = "CLOSED"]

\* audio.onended
audioOnEnded(s) ==
  processQueue([s EXCEPT !.currentPlayingAudio = Null])

\* audio.onerror
audioOnError_NoPump(s) ==
  [s EXCEPT !.currentPlayingAudio = Null]

audioOnError(s) ==
  processQueue([s EXCEPT !.currentPlayingAudio = Null])

\* audio.play().catch
audioPlayCatch(s) ==
  processQueue([s EXCEPT !.currentPlayingAudio = Null])

\* handleToggleAudio; the isAudioEnabledRef effect runs in the same commit
handleToggleAudio_PauseOnly(s) ==
  LET isNowEnabled == ~s.isAudioEnabled
      s1 == IF ~isNowEnabled /\ s.currentPlayingAudio # Null
            THEN [pauseOnly(s, s.currentPlayingAudio)
                    EXCEPT !.currentPlayingAudio = Null]
            ELSE s
  IN  [s1 EXCEPT !.isAudioEnabled = isNowEnabled]

handleToggleAudio(s) ==
  LET isNowEnabled == ~s.isAudioEnabled
      s1 == IF ~isNowEnabled /\ s.currentPlayingAudio # Null
            THEN [stopAndRelease(s, s.currentPlayingAudio)
                    EXCEPT !.currentPlayingAudio = Null]
            ELSE s
  IN  [s1 EXCEPT !.isAudioEnabled = isNowEnabled]

\* handleToggleWaitTime, then the effects that depend on waitTime: the
\* waitTimeRef mirror first, the processQueue effect after it
handleToggleWaitTime_Halves(s) ==
  processQueue([s EXCEPT !.waitTime = s.waitTime \div 2])

handleToggleWaitTime(s) ==
  processQueue([s EXCEPT !.waitTime = IF s.waitTime = FastWait
                                      THEN SlowWait ELSE FastWait])

\* cleanup returned by the session effect
\* the three statements of the cleanup: close the channel, cancel the timer
\* the handle names, pause the clip the handle names
closeChannel(s) ==
  [s EXCEPT !.readyState = "CLOSED"]

cancelTimer(s) ==
  IF s.timeoutIdRef # Null
  THEN [clearTimeout(s, s.timeoutIdRef) EXCEPT !.timeoutIdRef = Null]
  ELSE s

stopAudio(s) ==
  IF s.currentPlayingAudio # Null
  THEN [pauseOnly(s, s.currentPlayingAudio) EXCEPT !.currentPlayingAudio = Null]
  ELSE s

sessionCleanup_LeavesChannelOpen(s) ==
  stopAudio(cancelTimer(s))

sessionCleanup(s) ==
  stopAudio(cancelTimer(closeChannel(s)))

\* body of the session effect
sessionSetup(s) ==
  LET s1 == [s EXCEPT !.messages = << >>,
                      !.isInterviewComplete = FALSE,
                      !.messageQueue = << >>]
      s2 == IF s1.currentPlayingAudio # Null
            THEN [pauseOnly(s1, s1.currentPlayingAudio) EXCEPT !.currentPlayingAudio = Null]
            ELSE s1
  IN  [s2 EXCEPT !.readyState = "OPEN"]

\* ---------------------------------------------------------------- actions
\* the state after construction, but for the report pair
InitButReports ==
  /\ messages = << >>
  /\ isInterviewComplete = FALSE
  /\ isAudioEnabled = TRUE
  /\ waitTime = SlowWait
  /\ messageQueue = << >>
  /\ timeoutIdRef = Null
  /\ currentPlayingAudio = Null
  /\ readyState = "OPEN"
  /\ timers = {}
  /\ timerSeq = 0
  /\ clips = << >>
  /\ reportPane = << >>
  /\ showEvaluationInfoPopup = FALSE
  /\ showEvaluation = FALSE
  /\ evaluation = << >>
  /\ isFetchingEvaluation = FALSE
  /\ fetches = 0
  /\ requests = 0
  /\ oldChannels = << >>
  /\ closedBy = ""
  /\ reportLog = << >>
  /\ session = 1
  /\ received = << >>
  /\ arrived = 0
  /\ sawMalformed = FALSE
  /\ last = [op |-> "mount", arg |-> 0]

Init ==
  /\ InitButReports
  /\ currentReport = << >>
  /\ prevReport = << >>

\* The EventSources that can still deliver: the current one, and any
\* EventSource of an earlier session that was left open.  The handlers of
\* an earlier EventSource close over the same refs and state setters.
OpenSources ==
  (IF readyState = "OPEN" THEN {session} ELSE {})
    \cup {k \in DOMAIN oldChannels : oldChannels[k] = "OPEN"}

closeOld(src) == [oldChannels EXCEPT ![src] = "CLOSED"]

FrameEventFrom(E) ==
  /\ arrived < MaxFrames
  /\ \E src \in OpenSources, data \in E :
       /\ Commit(onmessage(St, data))
       /\ received' = IF src = session THEN Append(received, data) ELSE received
       /\ last' = [op |-> "event", arg |-> src]
  /\ arrived' = arrived + 1
  /\ UNCHANGED << session, sawMalformed, oldChannels, closedBy >>

FrameEvent == FrameEventFrom(Events)

FrameReport == FrameEventFrom(ReportEvents)

FrameEnd ==
  /\ \E src \in OpenSources :
       /\ IF src = session
          THEN /\ Commit(onmessage(St, EndSignal))
               /\ closedBy' = "end"
               /\ UNCHANGED oldChannels
          ELSE /\ Commit(processQueue(St))
               /\ oldChannels' = closeOld(src)
               /\ UNCHANGED closedBy
       /\ last' = [op |-> "end", arg |-> src]
  /\ UNCHANGED << session, received, arrived, sawMalformed >>

FrameMalformed ==
  /\ \E src \in OpenSources :
       /\ Commit(onMalformed(St))
       /\ sawMalformed' = (sawMalformed \/ src = session)
       /\ last' = [op |-> "malformed", arg |-> src]
  /\ UNCHANGED << session, received, arrived, oldChannels, closedBy >>

TransportError ==
  /\ \E src \in OpenSources :
       /\ IF src = session
          THEN /\ Commit(onTransportError(St))
               /\ closedBy' = "error"
               /\ UNCHANGED oldChannels
          ELSE /\ Commit(St)
               /\ oldChannels' = closeOld(src)
               /\ UNCHANGED closedBy
       /\ last' = [op |-> "transportError", arg |-> src]
  /\ UNCHANGED << session, received, arrived, sawMalformed >>

\* a pending timer expires and runs processQueue
TimerFired ==
  /\ \E t \in timers :
       /\ Commit(processQueue([St EXCEPT !.timers = timers \ {t}]))
       /\ last' = [op |-> "timer", arg |-> t.id]
  /\ UNCHANGED << session, received, arrived, sawMalformed, oldChannels, closedBy >>

\* What the browser may still deliver for a clip after delivering cb:
\* nothing after a natural end; nothing after the rejection of play() on a
\* clip that was not stopped (the clip never started); after an error, the
\* rejection of a play() promise that was still pending.
afterCallback(cbs, cb) ==
  IF cb = "ended" THEN {}
  ELSE IF cb = "reject" /\ "ended" \in cbs THEN {}
  ELSE cbs \ {cb, "ended"}

\* the browser delivers callback cb of clip c
AudioCallback(c, cb) ==
  /\ c \in DOMAIN clips
  /\ cb \in clips[c]
  /\ LET s == [St EXCEPT !.clips[c] = afterCallback(@, cb)]
     IN  Commit(CASE cb = "ended"  -> audioOnEnded(s)
                  [] cb = "error"  -> audioOnError(s)
                  [] cb = "reject" -> audioPlayCatch(s))
  /\ last' = [op |-> cb, arg |-> c]
  /\ UNCHANGED << session, received, arrived, sawMalformed, oldChannels, closedBy >>

AudioEnded == \E c \in DOMAIN clips : AudioCallback(c, "ended")
AudioError == \E c \in DOMAIN clips : AudioCallback(c, "error")
PlayRejected == \E c \in DOMAIN clips : AudioCallback(c, "reject")

ToggleAudio ==
  /\ Commit(handleToggleAudio(St))
  /\ last' = [op |-> "toggleAudio",
              arg |-> IF isAudioEnabled THEN currentPlayingAudio ELSE Null]
  /\ UNCHANGED << session, received, arrived, sawMalformed, oldChannels, closedBy >>

\* the speed icon is rendered only while audio is disabled
ToggleWaitTime ==
  /\ ~isAudioEnabled
  /\ Commit(handleToggleWaitTime(St))
  /\ last' = [op |-> "toggleWaitTime", arg |-> 0]
  /\ UNCHANGED << session, received, arrived, sawMalformed, oldChannels, closedBy >>

\* selectedPatient or selectedCondition changes: cleanup, then setup
ReplaceSession ==
  /\ session < MaxSessions
  /\ CommitProps(sessionSetup(sessionCleanup(St)), TRUE)
  /\ oldChannels' = Append(oldChannels, sessionCleanup(St).readyState)
  /\ closedBy' = ""
  /\ session' = session + 1
  /\ received' = << >>
  /\ sawMalformed' = FALSE
  /\ last' = [op |-> "replaceSession", arg |-> 0]
  /\ UNCHANGED arrived

Next ==
  \/ FrameEvent
  \/ FrameEnd
  \/ FrameMalformed
  \/ TransportError
  \/ TimerFired
  \/ AudioEnded
  \/ AudioError
  \/ PlayRejected
  \/ ToggleAudio
  \/ ToggleWaitTime
  \/ ReplaceSession

Spec == Init /\ [][Next]_vars

TypeOK ==
  /\ isInterviewComplete \in BOOLEAN
  /\ isAudioEnabled \in BOOLEAN
  /\ waitTime \in {FastWait, SlowWait}
  /\ readyState \in {"OPEN", "CLOSED"}
  /\ timeoutIdRef \in 0..timerSeq
  /\ currentPlayingAudio \in 0..Len(clips)
  /\ Cardinality(timers) <= 1
  /\ closedBy \in {"", "end", "error"}
  /\ \A k \in DOMAIN oldChannels : oldChannels[k] \in {"OPEN", "CLOSED"}
  /\ Len(oldChannels) = session - 1
  /\ showEvaluationInfoPopup \in BOOLEAN
  /\ showEvaluation \in BOOLEAN
  /\ isFetchingEvaluation \in BOOLEAN
  /\ fetches \in Nat
  /\ requests \in Nat
  /\ reportPane = reportPaneHtml(prevReport, currentReport)

\* ------------------------------------------------- the fair specification
\* The stream, the timers and the clips without user action or session
\* replacement.  An armed timer eventually fires and a clip that can still
\* end or fail eventually does.
LiveNext ==
  \/ FrameEvent
  \/ FrameEnd
  \/ FrameMalformed
  \/ TransportError
  \/ TimerFired
  \/ AudioEnded
  \/ AudioError
  \/ PlayRejected

Fairness ==
  /\ WF_vars(TimerFired)
  /\ \A c \in 1..MaxFrames :
       WF_vars(AudioCallback(c, "ended") \/ AudioCallback(c, "error"))

LiveSpec == Init /\ [][LiveNext]_vars /\ Fairness

\* ------------------------------------------------- the evaluation pane
\* onClick of the button "View Report Evaluation"
clickEvaluate(s) == [s EXCEPT !.showEvaluationInfoPopup = TRUE]

\* onClick of the popup's button "Continue"
clickContinue(s) ==
  [s EXCEPT !.showEvaluationInfoPopup = FALSE, !.showEvaluation = TRUE]

\* data.evaluation as the backend may send it: fenced or bare
EvaluationTexts ==
  { FenceOpen \o <<"<", "p", ">", "Good", "<", "/p", ">">> \o FenceClose,
    <<"<", "p", ">", "Good", "<", "/p", ">">> }

\* the button is rendered when the interview is complete and is enabled
\* while neither the popup nor the evaluation is shown
ClickEvaluate ==
  /\ isInterviewComplete
  /\ ~(showEvaluation \/ showEvaluationInfoPopup)
  /\ Commit(clickEvaluate(St))
  /\ last' = [op |-> "clickEvaluate", arg |-> 0]
  /\ UNCHANGED << session, received, arrived, sawMalformed, oldChannels, closedBy >>

ClickContinue ==
  /\ showEvaluationInfoPopup
  /\ Commit(clickContinue(St))
  /\ last' = [op |-> "clickContinue", arg |-> 0]
  /\ UNCHANGED << session, received, arrived, sawMalformed, oldChannels, closedBy >>

\* a request in flight is answered
EvaluationResolved ==
  /\ fetches > 0
  /\ \E text \in EvaluationTexts : Commit(evaluationThen(St, text))
  /\ last' = [op |-> "evaluationResolved", arg |-> 0]
  /\ UNCHANGED << session, received, arrived, sawMalformed, oldChannels, closedBy >>

\* a request in flight fails
EvaluationFailed ==
  /\ fetches > 0
  /\ Commit(evaluationCatch(St))
  /\ last' = [op |-> "evaluationFailed", arg |-> 0]
  /\ UNCHANGED << session, received, arrived, sawMalformed, oldChannels, closedBy >>

\* The interview with its evaluation: the stream, the pacing by timer and
\* by clip, session replacement, and the evaluation pane.
EvalNext ==
  \/ FrameEvent
  \/ FrameEnd
  \/ TimerFired
  \/ AudioEnded
  \/ ReplaceSession
  \/ ClickEvaluate
  \/ ClickContinue
  \/ EvaluationResolved
  \/ EvaluationFailed

EvalSpec == Init /\ [][EvalNext]_vars

\* ------------------------------------- the fair specification with mute
\* The fair specification in which the user may also switch audio off,
\* once, and does nothing afterwards.  Emptying the source of a clip makes
\* the browser fire the clip's error event, so the fairness of the clips'
\* callbacks covers the clip the toggle stops.
ToggleAudioOff == isAudioEnabled /\ ToggleAudio

MuteNext ==
  \/ LiveNext
  \/ ToggleAudioOff

MuteSpec == Init /\ [][MuteNext]_vars /\ Fairness

\* ------------------------------------------- the report specification
\* The stream carrying report revisions and patient turns without audio,
\* the timers that pace them, and session replacement.
ReportNext ==
  \/ FrameReport
  \/ FrameEnd
  \/ TimerFired
  \/ ReplaceSession

ReportSpec == Init /\ [][ReportNext]_vars

\* --------------------------------------------- the diff specification
\* getDiffReport as a function of the report pair: the pair is any two
\* reports of at most MaxTokens tags and words that differ in at most one
\* of them, and the only step is the render of the report pane.
HtmlTokens ==
  { <<"<", "p", ">">>, <<"<", "/p", ">">>, <<"A">>, <<"B">>, <<" ">> }

TokenSeqs == UNION { [1..n -> HtmlTokens] : n \in 0..MaxTokens }

DiffInit ==
  /\ InitButReports
  /\ \E a \in TokenSeqs, b \in TokenSeqs :
       /\ Len(a) = Len(b)
       /\ Cardinality({k \in 1..Len(a) : a[k] # b[k]}) <= 1
       /\ prevReport = join(a)
       /\ currentReport = join(b)

RenderReport ==
  /\ last.op # "render"
  /\ reportPane' = reportPaneHtml(prevReport, currentReport)
  /\ last' = [op |-> "render", arg |-> 0]
  /\ UNCHANGED << messages, isInterviewComplete, isAudioEnabled, waitTime,
                  messageQueue, timeoutIdRef, currentPlayingAudio, readyState,
                  timers, timerSeq, clips, currentReport, prevReport,
                  showEvaluationInfoPopup, showEvaluation, evaluation,
                  isFetchingEvaluation, fetches, requests, oldChannels,
                  closedBy, reportLog, session, received, arrived,
                  sawMalformed >>

DiffSpec == DiffInit /\ [][RenderReport]_vars

\* ------------------------------------------ the scenario specification
\* One interview: the user disables audio and selects the fast pacing,
\* then the backend pushes four events and the end signal, at any pace
\* relative to the timers; when the interview is complete the user asks
\* for the evaluation.
ScenarioTurns ==
  << [speaker |-> "interviewer", text |-> <<"Hello">>],
     [speaker |-> "report",      text |-> <<"#", " ", "R1">>],
     [speaker |-> "patient",     text |-> <<"Hi">>],
     [speaker |-> "report",      text |-> <<"#", " ", "R2">>] >>

\* the backend attaches a clip to a turn of the interviewer or the
\* patient, or none; a report has none
ScenarioAudio(turn) ==
  IF turn.speaker = "report" THEN {""} ELSE {"", "a.wav"}

\* speaker and text of the events of a sequence
Turns(events) ==
  [k \in 1..Len(events) |->
     [speaker |-> events[k].speaker, text |-> events[k].text]]

ScenarioReady == ~isAudioEnabled /\ waitTime = FastWait

ScenarioDisableAudio == isAudioEnabled /\ ToggleAudio

ScenarioFastPacing == waitTime = SlowWait /\ ToggleWaitTime

ScenarioFrame ==
  /\ ScenarioReady
  /\ readyState = "OPEN"
  /\ Len(received) < Len(ScenarioTurns)
  /\ LET turn == ScenarioTurns[Len(received) + 1]
     IN  \E audio \in ScenarioAudio(turn) :
           LET data == [speaker |-> turn.speaker, text |-> turn.text,
                        audio |-> audio]
           IN  /\ Commit(onmessage(St, data))
               /\ received' = Append(received, data)
  /\ arrived' = arrived + 1
  /\ last' = [op |-> "event", arg |-> session]
  /\ UNCHANGED << session, sawMalformed, oldChannels, closedBy >>

ScenarioEnd ==
  /\ Len(received) = Len(ScenarioTurns)
  /\ FrameEnd

ScenarioNext ==
  \/ ScenarioDisableAudio
  \/ ScenarioFastPacing
  \/ ScenarioFrame
  \/ ScenarioEnd
  \/ TimerFired
  \/ ClickEvaluate
  \/ ClickContinue
  \/ EvaluationResolved
  \/ EvaluationFailed

ScenarioFairness ==
  /\ WF_vars(ScenarioDisableAudio)
  /\ WF_vars(ScenarioFastPacing)
  /\ WF_vars(ScenarioFrame)
  /\ WF_vars(ScenarioEnd)
  /\ WF_vars(TimerFired)

ScenarioSpec == Init /\ [][ScenarioNext]_vars /\ ScenarioFairness

\* ------------------------------------------------------------- properties
\* a step of the current session that appends to DisplayedMessages
Released == session' = session /\ Len(messages') > Len(messages)

\* the step arms a fixed-delay timer / starts a clip
TimerArmed == timerSeq' = timerSeq + 1
ClipStarted == Len(clips') = Len(clips) + 1

\* C1: DisplayedMessages followed by the queue is the sequence of parsed
\* non-end frames of the session in arrival order, and DisplayedMessages
\* changes only by appending the head of the queue.
C1_FifoDelivery ==
  /\ [](messages \o messageQueue = received)
  /\ [][Released =>
          /\ messages' = Append(messages, received'[Len(messages) + 1])
          /\ messages' \o messageQueue' = received']_vars

C1_Witness ==
  /\ Len(messages) >= 2
  /\ messageQueue # << >>
  /\ messages[1] # messages[2]

\* C2: an event is released only when no pacing mechanism of an earlier
\* release is unresolved: no timer is pending other than the one whose
\* expiry is this step, and no clip is playing other than the one whose
\* callback is this step.
C2_NoEarlyRelease ==
  [][Released =>
       /\ {t \in timers : ~(last'.op = "timer" /\ last'.arg = t.id)} = {}
       /\ {c \in Playing(clips) :
             ~(last'.op \in Callbacks /\ last'.arg = c)} = {}]_vars

\* C3: isInterviewComplete holds only when the queue is empty and the
\* channel is closed.
C3_CompleteOnlyWhenDrained ==
  isInterviewComplete => (messageQueue = << >> /\ readyState = "CLOSED")

C3_Witness ==
  /\ isInterviewComplete
  /\ Len(messages) >= 2

\* C4: under the fair specification every pushed event is eventually
\* displayed: DisplayedMessages ends up equal to the pushed sequence and
\* the queue ends up empty.
C4_EventuallyAllDisplayed ==
  <>[](messages = received /\ messageQueue = << >>)

C4_Witness ==
  /\ Len(received) >= 3
  /\ messages = received
  /\ timerSeq >= 1
  /\ Len(clips) >= 1

\* C5: under the fair specification, once the end signal has been handled
\* isInterviewComplete eventually becomes true.
C5_EndLeadsToComplete ==
  (last.op = "end") ~> isInterviewComplete

C5_Witness ==
  /\ last.op = "end"
  /\ isInterviewComplete
  /\ messages # << >>

\* C6: at most one clip is playing.
C6_AtMostOnePlaying ==
  Cardinality(Playing(clips)) <= 1

\* C7: a release arms exactly one pacing mechanism: a clip if the event has
\* a non-empty audio reference and audio is enabled, otherwise a timer of
\* the configured interval.
C7_ExactlyOnePacing ==
  [][Released =>
       LET ev == messages'[Len(messages')]
       IN  /\ ClipStarted <=> (ev.audio # "" /\ isAudioEnabled')
           /\ TimerArmed <=> ~ClipStarted
           /\ ClipStarted =>
                /\ currentPlayingAudio' = Len(clips')
                /\ currentPlayingAudio' \in Playing(clips')
                /\ timers' = {}
           /\ TimerArmed =>
                /\ timers' = {[id |-> timerSeq', delay |-> waitTime']}
                /\ timeoutIdRef' = timerSeq'
                /\ Len(clips') = Len(clips)]_vars

C7_Witness ==
  /\ ~isAudioEnabled
  /\ messages # << >>
  /\ messages[Len(messages)].audio # ""
  /\ timers # {}
  /\ Len(clips) >= 1

\* C8: toggling audio off while a clip is playing leaves no clip playing
\* and neither displays nor starts anything, and an event released while
\* audio is disabled is paced by a timer.
C8_ToggleOffStopsClip ==
  /\ [][(last'.op = "toggleAudio" /\ isAudioEnabled /\ Playing(clips) # {}) =>
          /\ Playing(clips') = {}
          /\ messages' = messages
          /\ Len(clips') = Len(clips)]_vars
  /\ [][(Released /\ ~isAudioEnabled') => (TimerArmed /\ ~ClipStarted)]_vars

\* C9: the error event of a clip and the rejection of its play request
\* clear the audio handle and pump: the head of the queue is released, or
\* on an empty queue isInterviewComplete is re-evaluated.
C9_FailureAdvances ==
  [][(last'.op \in {"error", "reject"}) =>
       /\ currentPlayingAudio' \in {Null} \cup (1..Len(clips') \ 1..Len(clips))
       /\ messageQueue # << >> =>
            /\ messages' = Append(messages, Head(messageQueue))
            /\ messageQueue' = Tail(messageQueue)
            /\ TimerArmed \/ ClipStarted
       /\ messageQueue = << >> =>
            /\ messages' = messages
            /\ isInterviewComplete' = (readyState = "CLOSED")
            /\ timeoutIdRef' = Null]_vars

C9_Witness ==
  /\ last.op = "error"
  /\ Len(messages) >= 2
  /\ currentPlayingAudio # Null

\* C10: discarding a malformed frame changes nothing and leaves the channel
\* open, and frames that arrive after it are queued as usual.
C10_MalformedDiscarded ==
  /\ [][(last'.op = "malformed") =>
          /\ UNCHANGED << messages, messageQueue, timers, timeoutIdRef,
                          clips, currentPlayingAudio, isInterviewComplete,
                          isAudioEnabled, waitTime, readyState >>
          /\ readyState' = "OPEN"]_vars
  /\ [](sawMalformed => messages \o messageQueue = received)

C10_Witness ==
  /\ sawMalformed
  /\ last.op = "event"
  /\ received # << >>
  /\ messages # << >>

\* the step pumps the queue of the pre-state: the head is released and
\* paced, or on an empty queue completion is re-evaluated
Pumped ==
  /\ messageQueue # << >> =>
       /\ messages' = Append(messages, Head(messageQueue))
       /\ messageQueue' = Tail(messageQueue)
       /\ TimerArmed \/ ClipStarted
  /\ messageQueue = << >> =>
       /\ messages' = messages
       /\ messageQueue' = << >>
       /\ isInterviewComplete' = (readyState' = "CLOSED")
       /\ timeoutIdRef' = Null

\* C11: handling the end signal closes the channel and pumps the queue;
\* the end signal itself is never queued or displayed; and once the end
\* signal has been handled no event is appended to the queue in that
\* session.
C11_EndClosesAndPumps ==
  /\ [][(last'.op = "end" /\ last'.arg = session) =>
          /\ readyState' = "CLOSED"
          /\ Pumped]_vars
  /\ [](\A k \in 1..Len(messages \o messageQueue) :
          (messages \o messageQueue)[k] # EndSignal)
  /\ [][(closedBy = "end" /\ session' = session) =>
          /\ received' = received
          /\ \/ messageQueue' = messageQueue
             \/ messageQueue # << >> /\ messageQueue' = Tail(messageQueue)]_vars

C11_Witness ==
  /\ last.op = "end"
  /\ closedBy = "end"
  /\ readyState = "CLOSED"
  /\ Len(messages) >= 2
  /\ messageQueue # << >>

\* C12: a transport error closes the channel, the channel is not reopened
\* in that session, and isInterviewComplete does not become true in a
\* session whose channel was closed by a transport error and not by the
\* end signal.
C12_ErrorNeverCompletes ==
  /\ [][(last'.op = "transportError" /\ last'.arg = session) =>
          readyState' = "CLOSED"]_vars
  /\ [][(closedBy = "error" /\ session' = session) =>
          readyState' = "CLOSED"]_vars
  /\ [](closedBy = "error" => ~isInterviewComplete)

\* C13: a session replacement leaves the old channel closed, no timer
\* pending and no clip playing, and the new session starts with an empty
\* queue, no displayed message and isInterviewComplete false.
C13_TeardownLeavesNothing ==
  [][(last'.op = "replaceSession") =>
       /\ oldChannels'[session] = "CLOSED"
       /\ timers' = {}
       /\ Playing(clips') = {}
       /\ messages' = << >>
       /\ messageQueue' = << >>
       /\ ~isInterviewComplete']_vars

\* C14: at most one channel is open; the channel of a session is closed
\* when its successor's channel is opened and stays closed; and every
\* event in the queue or displayed was delivered by the channel of the
\* current session.
C14_OneChannelAtATime ==
  /\ [](Cardinality(OpenSources) <= 1)
  /\ [](\A k \in DOMAIN oldChannels : oldChannels[k] = "CLOSED")
  /\ [](last.op = "event" => last.arg = session)
  /\ [](messages \o messageQueue = received)

C14_Witness ==
  /\ session = 2
  /\ last.op = "event"
  /\ arrived > Len(received)
  /\ messages # << >>
  /\ readyState = "OPEN"

\* C15: when a report is released whose rendering differs from the current
\* report, the previous report becomes the old current one and the current
\* report the new rendering; when the rendering is the same the pair is
\* unchanged; the release of an event that is not a report leaves the pair
\* unchanged.
C15_TrackerTransition ==
  [][Released =>
       LET ev == messages'[Len(messages')]
           newReport == marked(trim(ev.text))
       IN  IF ev.speaker = "report" /\ newReport # currentReport
           THEN /\ prevReport' = currentReport
                /\ currentReport' = newReport
           ELSE UNCHANGED << currentReport, prevReport >>]_vars

C15_Witness ==
  /\ Len(messages) >= 3
  /\ messages[Len(messages)].speaker = "patient"
  /\ prevReport # << >>
  /\ currentReport # prevReport
  /\ last.op = "timer"

\* C16: whenever a report has been released in the session, the current
\* report is the rendering of the most recent released report and the
\* previous report the rendering of the second most recent one, empty when
\* there is only one.
C16_PairIsLastTwoReports ==
  LET reports == reportMessages(messages)
      n == Len(reports)
  IN  n >= 1 =>
        /\ currentReport = marked(trim(reports[n].text))
        /\ prevReport = IF n >= 2 THEN marked(trim(reports[n - 1].text))
                        ELSE << >>

\* C16 as amended: whenever a report has been released in the session, the
\* current report is the rendering of the most recent released report, and
\* the previous report is the rendering of the most recent report released
\* before it, in this session or an earlier one of the same component,
\* whose rendering differs from the current report; it is empty when there
\* is no such report.
C16_PairIsLastTwoDistinct ==
  LET reports == reportMessages(messages)
      n == Len(reports)
      rendered == [k \in 1..Len(reportLog) |-> marked(trim(reportLog[k]))]
      earlier == {k \in 1..Len(reportLog) : rendered[k] # currentReport}
  IN  n >= 1 =>
        /\ currentReport = marked(trim(reports[n].text))
        /\ reportLog[Len(reportLog)] = reports[n].text
        /\ prevReport =
             IF earlier = {} THEN << >>
             ELSE rendered[CHOOSE k \in earlier : \A j \in earlier : j <= k]

C16_Witness ==
  LET reports == reportMessages(messages)
      n == Len(reports)
  IN  /\ n >= 2
      /\ prevReport # << >>
      /\ marked(trim(reports[n - 1].text)) = currentReport
      /\ reports[n - 1].text # reports[n].text

\* the names of the two highlighting tags
SpanNames == {"span class=\"add\"", "span class=\"remove\""}

ParagraphA == <<"<", "p", ">", "A", "<", "/p", ">">>
ParagraphB == <<"<", "p", ">", "B", "<", "/p", ">">>

\* C18: getDiffReport of <p>A</p> and <p>B</p> is the two p tags unwrapped
\* with A in a remove span followed by B in an add span between them; and
\* when two reports have the same tokens but for one text token, every
\* other token passes through unwrapped and only the text that differs is
\* wrapped: the words removed in a remove span, the words added in an add
\* span, the whole old text followed by the whole new text when they share
\* no word.
C18_OneTextTokenDiffers ==
  /\ getDiffReport(ParagraphA, ParagraphB) =
       <<"<", "p", ">">> \o RemoveOpen \o <<"A">> \o SpanClose
         \o AddOpen \o <<"B">> \o SpanClose \o <<"<", "/p", ">">>
  /\ LET a == tokenizeHTML(prevReport)
         b == tokenizeHTML(currentReport)
         differ == {k \in 1..Len(a) : a[k] # b[k]}
     IN  ( /\ last.op = "render"
           /\ Len(a) = Len(b)
           /\ Cardinality(differ) = 1
           /\ \A k \in differ : ~isTagText(a[k]) /\ ~isTagText(b[k]) ) =>
         LET i == CHOOSE k \in differ : TRUE
             shared == {a[i][k] : k \in 1..Len(a[i])}
                         \cap {b[i][k] : k \in 1..Len(b[i])}
             wrapped == IF shared = {}
                        THEN RemoveOpen \o a[i] \o SpanClose
                               \o AddOpen \o b[i] \o SpanClose
                        ELSE innerResult(diffWords(a[i], b[i]))
         IN  reportPane = join(SubSeq(a, 1, i - 1)) \o wrapped
                            \o join(SubSeq(a, i + 1, Len(a)))

C18_Witness ==
  /\ last.op = "render"
  /\ prevReport = ParagraphA
  /\ currentReport = ParagraphB
  /\ reportPane = <<"<", "p", ">">> \o RemoveOpen \o <<"A">> \o SpanClose
                    \o AddOpen \o <<"B">> \o SpanClose \o <<"<", "/p", ">">>

\* C19: in the scenario the displayed messages are the pushed events in
\* order, each released only when no timer of an earlier release is still
\* pending; isInterviewComplete holds only when all four events have been
\* released and the end signal handled; and eventually it holds with the
\* report pair (rendering of R1, rendering of R2).
C19_Scenario ==
  /\ [](messages \o messageQueue = received)
  /\ [][Released => (timers = {} \/ last'.op = "timer")]_vars
  /\ [](isInterviewComplete =>
          (Turns(messages) = ScenarioTurns /\ closedBy = "end"))
  /\ <>[](/\ isInterviewComplete
          /\ Turns(messages) = ScenarioTurns
          /\ prevReport = marked(<<"#", " ", "R1">>)
          /\ currentReport = marked(<<"#", " ", "R2">>))

\* C20: when an evaluation request fails, the evaluation text becomes the
\* literal error string, the fetching flag is cleared, and no request is
\* issued.
C20_FailureShowsError ==
  [][(last'.op = "evaluationFailed") =>
       /\ evaluation' = ErrorText
       /\ isFetchingEvaluation' = FALSE
       /\ requests' = requests
       /\ fetches' = fetches - 1]_vars

C20_Witness ==
  /\ last.op = "evaluationFailed"
  /\ isInterviewComplete
  /\ showEvaluation
  /\ evaluation = ErrorText
  /\ ~isFetchingEvaluation
  /\ requests = 1
  /\ fetches = 0

\* C21: the pacing interval is one of the two presets, audio is enabled
\* when a session starts, and the speed toggle acts only in states where
\* audio is disabled.
C21_PresetsAndAudioOnAtStart ==
  /\ [](waitTime \in {FastWait, SlowWait})
  /\ [](last.op \in {"mount", "replaceSession"} => isAudioEnabled)
  /\ [][(last'.op = "toggleWaitTime") => ~isAudioEnabled]_vars

\* C21 as amended: the pacing interval is one of the two presets; when the
\* component is mounted audio is enabled and the interval is the slow one;
\* a session that replaces another in place starts with the audio setting
\* and the interval the user left; and the speed toggle acts only in
\* states where audio is disabled.
C21_PresetsAndAudioOnAtMount ==
  /\ [](waitTime \in {FastWait, SlowWait})
  /\ [](last.op = "mount" => (isAudioEnabled /\ waitTime = SlowWait))
  /\ [][(last'.op = "replaceSession") =>
          UNCHANGED << isAudioEnabled, waitTime >>]_vars
  /\ [][(last'.op = "toggleWaitTime") =>
          /\ ~isAudioEnabled
          /\ ~isAudioEnabled'
          /\ waitTime' # waitTime]_vars

C21_Witness ==
  /\ last.op = "replaceSession"
  /\ session = 2
  /\ ~isAudioEnabled
  /\ waitTime = FastWait

\* C22: a well-formed frame that is not the end signal is appended to the
\* tail of the queue, and the pump runs in that step if and only if no
\* timer is pending and no clip is playing.
C22_PumpIffNothingPacing ==
  [][(last'.op = "event" /\ last'.arg = session) =>
       LET data == received'[Len(received')]
           pushed == Append(messageQueue, data)
           pacing == timers # {} \/ Playing(clips) # {}
       IN  IF pacing
           THEN /\ messages' = messages
                /\ messageQueue' = pushed
           ELSE /\ messages' = Append(messages, Head(pushed))
                /\ messageQueue' = Tail(pushed)]_vars

\* C23: under the fair specification with mute, once audio is off every
\* event that is queued, or that arrives later, is eventually released
\* without any user action, also when the end signal has already closed
\* the channel.
C23_MutedQueueAdvances ==
  \A n \in 0..MaxFrames :
    (~isAudioEnabled /\ Len(messages) = n /\ Len(received) > n)
      ~> (Len(messages) > n)

C23_Witness ==
  /\ ~isAudioEnabled
  /\ closedBy = "end"
  /\ last.op = "error"
  /\ Playing(clips) = {}
  /\ timers # {}
  /\ Len(messages) >= 2

\* C24: no timer is pending while a clip is playing.
C24_NoTimerWhileClipPlays ==
  timers = {} \/ Playing(clips) = {}

\* C25: the end signal received while an event is in flight and the queue is
\* not empty only closes the channel: the displayed messages, the queue, the
\* pending timers and the playing clip are unchanged by that step.
C25_EndOnlyClosesWhileInFlight ==
  [][(/\ last'.op = "end" /\ last'.arg = session
      /\ messageQueue # << >>
      /\ (timers # {} \/ Playing(clips) # {}))
     => /\ readyState' = "CLOSED"
        /\ UNCHANGED << messages, messageQueue, timers, clips >>]_vars

\* C26: toggling the pacing speed changes only the configured interval: the
\* step releases no event, neither cancels nor restarts a pending timer, and
\* leaves the displayed messages, the queue and isInterviewComplete unchanged.
C26_SpeedToggleOnlySetsInterval ==
  [][(last'.op = "toggleWaitTime")
     => /\ waitTime' # waitTime
        /\ UNCHANGED << messages, messageQueue, isInterviewComplete, timers >>]_vars

\* the step before this state was a callback of a clip whose pump released an
\* event: that pump left a started clip in the handle or a timer id in
\* timeoutIdRef, where a pump on the empty queue leaves both null
ReleasedByCallback ==
  /\ last.op \in Callbacks
  /\ (currentPlayingAudio # Null \/ timeoutIdRef # Null)

\* C27: the termination of one clip advances the queue by at most one event
\* (a second callback delivered for the clip whose callback has just released
\* an event releases nothing), and a callback of one clip never clears the
\* handle of a different clip that is still playing.
C27_OneReleasePerClip ==
  /\ [][(/\ ReleasedByCallback
          /\ last'.op \in Callbacks
          /\ last'.arg = last.arg)
         => ~Released]_vars
  /\ [][(/\ last'.op \in Callbacks
          /\ currentPlayingAudio # Null
          /\ currentPlayingAudio # last'.arg
          /\ currentPlayingAudio \in Playing(clips))
         => currentPlayingAudio' = currentPlayingAudio]_vars

\* the step runs the pump: a timer fires, a clip's callback is delivered, the
\* end signal arrives, or the effect on waitTime runs
PumpStep == last'.op \in {"timer", "toggleWaitTime", "end"} \cup Callbacks

\* C28: a pump call on an empty queue sets isInterviewComplete to exactly
\* (the channel is closed) and clears the timer handle, cancelling the timer
\* it names; the displayed messages, the queue and the clips are unchanged
\* and no timer is armed.
C28_PumpOnEmptyQueue ==
  [][(PumpStep /\ messageQueue = << >>)
     => /\ isInterviewComplete' = (readyState' = "CLOSED")
        /\ timeoutIdRef' = Null
        /\ timerSeq' = timerSeq
        /\ timers' = {t \in timers :
                         /\ t.id # timeoutIdRef
                         /\ last'.op = "timer" => t.id # last'.arg}
        /\ messages' = messages
        /\ messageQueue' = << >>
        /\ Len(clips') = Len(clips)
        /\ \A c \in DOMAIN clips :
             (last'.op \in Callbacks /\ c = last'.arg) \/ clips'[c] = clips[c]
        /\ last'.op \notin Callbacks => currentPlayingAudio' = currentPlayingAudio]_vars

\* a timer fired on the empty queue after the channel closed
C28_Witness ==
  /\ last.op = "timer"
  /\ messages # << >> /\ messageQueue = << >>
  /\ timers = {} /\ currentPlayingAudio = Null /\ timeoutIdRef = Null
  /\ readyState = "CLOSED" /\ isInterviewComplete

\* C29: a pump call on a non-empty queue removes exactly the head event and
\* appends exactly that event to the displayed messages in the same step, in
\* which its pacing starts; the rest of the queue keeps its order and
\* isInterviewComplete is not modified.  The pump runs on the queue as it is
\* when the pump is called: an event frame is pushed before its pump.
C29_PumpReleasesHead ==
  /\ [][(PumpStep /\ messageQueue # << >>)
         => /\ messages' = Append(messages, Head(messageQueue))
            /\ messageQueue' = Tail(messageQueue)
            /\ TimerArmed \/ ClipStarted
            /\ isInterviewComplete' = isInterviewComplete]_vars
  /\ [][(/\ last'.op = "event"
          /\ currentPlayingAudio = Null /\ timeoutIdRef = Null)
         => \E data \in Events :
              LET pushed == Append(messageQueue, data)
              IN  /\ messages' = Append(messages, Head(pushed))
                  /\ messageQueue' = Tail(pushed)
                  /\ TimerArmed \/ ClipStarted
                  /\ isInterviewComplete' = isInterviewComplete]_vars

\* a timer fired, its pump released the head of the queue and armed the
\* next timer, and an event is still queued
C29_Witness ==
  /\ last.op = "timer" /\ last.arg = timerSeq - 1
  /\ timeoutIdRef = timerSeq
  /\ \E t \in timers : t.id = timerSeq
  /\ Len(messages) >= 2 /\ messageQueue # << >>

\* C30: the pump is idempotent: in every reachable state, invoking it twice
\* in immediate succession leaves the same queue, displayed messages, timers,
\* clips and isInterviewComplete as invoking it once.
C30_PumpIdempotent ==
  LET once == processQueue(St)
      twice == processQueue(once)
  IN  /\ twice.messageQueue = once.messageQueue
      /\ twice.messages = once.messages
      /\ twice.timers = once.timers
      /\ twice.timeoutIdRef = once.timeoutIdRef
      /\ twice.clips = once.clips
      /\ twice.currentPlayingAudio = once.currentPlayingAudio
      /\ twice.isInterviewComplete = once.isInterviewComplete

\* the cleanup's three statements applied in each of the six orders
TeardownOrders ==
  { stopAudio(cancelTimer(closeChannel(St))),
    cancelTimer(stopAudio(closeChannel(St))),
    stopAudio(closeChannel(cancelTimer(St))),
    closeChannel(stopAudio(cancelTimer(St))),
    cancelTimer(closeChannel(stopAudio(St))),
    closeChannel(cancelTimer(stopAudio(St))) }

\* every order of the three statements gives the state the cleanup gives,
\* and a second cleanup changes nothing
TeardownAlgebra ==
  /\ TeardownOrders = {sessionCleanup(St)}
  /\ sessionCleanup(sessionCleanup(St)) = sessionCleanup(St)

\* C31: from every reachable state the three teardown statements, in any
\* order, and the teardown applied twice, give the same state, in which the
\* channel is closed, no timer is pending and no clip is playing.
C31_TeardownIdempotent ==
  /\ TeardownAlgebra
  /\ LET t == sessionCleanup(St)
     IN  /\ t.readyState = "CLOSED"
         /\ t.timeoutIdRef = Null /\ t.timers = {}
         /\ t.currentPlayingAudio = Null /\ Playing(t.clips) = {}

\* C32: within a session isInterviewComplete is monotone: once it is true
\* it stays true until the session is replaced, and the displayed messages
\* and the queue do not change again in that session.
C32_CompleteIsFinal ==
  [][(isInterviewComplete /\ session' = session)
     => /\ isInterviewComplete'
        /\ messages' = messages
        /\ messageQueue' = messageQueue]_vars

\* the interview was complete, and then the user toggled the audio
C32_Witness ==
  /\ isInterviewComplete /\ last.op = "toggleAudio"
  /\ messages # << >> /\ readyState = "CLOSED"

\* C33: the previous report differs from the current report unless both are
\* empty, so the report pane never diffs a revision against itself.
C33_PairDiffers ==
  prevReport = currentReport => currentReport = << >>

\* two revisions were released, and then a report that renders like the
\* current one
C33_Witness ==
  LET reports == reportMessages(messages)
      n == Len(reports)
  IN  /\ n >= 3
      /\ prevReport # << >>
      /\ marked(trim(reports[n].text)) = marked(trim(reports[n - 1].text))

\* C34: in a session in which no report has been released yet the report
\* pair is empty, and the previous report is always the rendering of a
\* report released in the current session: a replacement resets the pair,
\* so no diff spans two sessions.
C34_PairResetOnReplace ==
  LET reports == reportMessages(messages)
  IN  /\ reports = << >> => (currentReport = << >> /\ prevReport = << >>)
      /\ prevReport # << >> =>
           \E k \in 1..Len(reports) : marked(trim(reports[k].text)) = prevReport

\* C35: an evaluation request is issued only in a state where
\* isInterviewComplete is true and no event is queued, and at most once per
\* session: the step that issues it is the one that shows the evaluation, or
\* the first of a new session.
C35_EvaluationOncePerSession ==
  [][(requests' > requests)
     => /\ isInterviewComplete'
        /\ messageQueue' = << >>
        /\ ~showEvaluation \/ session' # session]_vars

\* the single bare tags among the texts of the diff specification
BareTags == { <<"<", "p", ">">>, <<"<", "/p", ">">> }

\* C36: in the rendered diff a removed run immediately followed by an added
\* run is replaced by the word-level diff of the two concatenated texts
\* exactly when neither text is a single bare tag, and the added run of such
\* a pair is not emitted again; every other removed run is wrapped whole in
\* one remove span, every other added run whole in one add span, and a
\* common run passes through.
C36_ReplaceRule ==
  (last.op = "render" /\ prevReport # << >>) =>
    LET parts == diffArrays(tokenizeHTML(prevReport), tokenizeHTML(currentReport))
        text(k) == join(parts[k].value)
        paired(k) == /\ k + 1 <= Len(parts)
                     /\ parts[k].removed /\ parts[k + 1].added
                     /\ text(k) \notin BareTags /\ text(k + 1) \notin BareTags
        piece(k) ==
          IF paired(k) THEN innerResult(diffWords(text(k), text(k + 1)))
          ELSE IF k > 1 /\ paired(k - 1) THEN << >>
          ELSE IF parts[k].added THEN AddOpen \o text(k) \o SpanClose
          ELSE IF parts[k].removed THEN RemoveOpen \o text(k) \o SpanClose
          ELSE text(k)
    IN  reportPane = join([k \in 1..Len(parts) |-> piece(k)])

\* the text A replaced by a tag: the pair is not word-diffed
C36_Witness ==
  /\ last.op = "render"
  /\ prevReport = <<"<", "p", ">", "A", "<", "/p", ">">>
  /\ currentReport = <<"<", "p", ">", "<", "p", ">", "<", "/p", ">">>
  /\ reportPane = <<"<", "p", ">">> \o RemoveOpen \o <<"A">> \o SpanClose
                    \o AddOpen \o <<"<", "p", ">">> \o SpanClose
                    \o <<"<", "/p", ">">>

\* C37: the timer handle is non-null exactly when a fixed-delay timer is
\* pending, and then it names that timer.
C37_HandleIffTimerPending ==
  timers = {t \in timers : t.id = timeoutIdRef}
  /\ (timeoutIdRef # Null <=> timers # {})
====
